---- MODULE Spec2Model ----
(***************************************************************************)
(* rarity-mention (src/src/lib.rs): the Mention trait, its thirty impls    *)
(* (fifteen input types, each by value and by reference), the wrapper      *)
(* MentionFormat<T> and its four Display impls.                            *)
(*                                                                         *)
(* Text is a sequence of one-character strings, so that a rendered mention *)
(* can be taken apart character by character.                              *)
(***************************************************************************)
EXTENDS Integers, Sequences, FiniteSets

VARIABLES
    self,      \* the value mention() is called on (for a reference: its pointee)
    ty,        \* the static type of the receiver: [base, refs]
    pc,        \* "start" | "mentioned" | "rendered" | "recursing"
    calls,     \* the impls entered by the call, outermost first
    wrapper,   \* the MentionFormat<T> returned, or NoWrapper
    out,       \* the text of the last to_string(), or NoText
    prev,      \* the text of the to_string() before the last one, or NoText
    renders    \* how many times the wrapper was rendered

vars == <<self, ty, pc, calls, wrapper, out, prev, renders>>

-----------------------------------------------------------------------------
(* Bounds *)

\* identifier values 0 .. MaxId are enumerated (one and two digits)
MaxId == 11

\* a wrapper (it is Copy) is rendered at most this many times
MaxRenders == 2

-----------------------------------------------------------------------------
(* Values of the external model types (twilight_model) *)

\* u64 identifier values: the small ones, and the values of the tests and scenarios
Ids == (0 .. MaxId) \cup {99, 100, 123, 456, 789, 1000000, 2147483647}

\* values of identifier-typed fields that are not the mentioned identifier
OtherIds == {5, 456}

Names == {"emoji", "smile"}

ChannelId == Ids
EmojiId == Ids
RoleId == Ids
UserId == Ids

CategoryChannel == [id : ChannelId, name : Names]
TextChannel == [id : ChannelId, name : Names]
VoiceChannel == [id : ChannelId, name : Names]
Group == [id : ChannelId, owner_id : OtherIds]
PrivateChannel == [id : ChannelId, last_message_id : OtherIds]
CurrentUser == [id : UserId, name : Names]
User == [id : UserId, name : Names]
Emoji == [id : EmojiId, name : Names]
Member == [user : User, guild_id : OtherIds]

GuildChannel ==
    [variant : {"Category"}, c : CategoryChannel]
        \cup [variant : {"Text"}, c : TextChannel]
        \cup [variant : {"Voice"}, c : VoiceChannel]

Channel ==
    [variant : {"Group"}, group : Group]
        \cup [variant : {"Guild"}, guild : GuildChannel]
        \cup [variant : {"Private"}, private : PrivateChannel]

\* the fifteen types Mention is implemented for by value
Bases ==
    {"ChannelId", "CategoryChannel", "Channel", "CurrentUser", "EmojiId", "Emoji",
     "Group", "GuildChannel", "Member", "PrivateChannel", "RoleId", "TextChannel",
     "UserId", "User", "VoiceChannel"}

ValuesOf(base) ==
    CASE base = "ChannelId" -> ChannelId
      [] base = "CategoryChannel" -> CategoryChannel
      [] base = "Channel" -> Channel
      [] base = "CurrentUser" -> CurrentUser
      [] base = "EmojiId" -> EmojiId
      [] base = "Emoji" -> Emoji
      [] base = "Group" -> Group
      [] base = "GuildChannel" -> GuildChannel
      [] base = "Member" -> Member
      [] base = "PrivateChannel" -> PrivateChannel
      [] base = "RoleId" -> RoleId
      [] base = "TextChannel" -> TextChannel
      [] base = "UserId" -> UserId
      [] base = "User" -> User
      [] base = "VoiceChannel" -> VoiceChannel

-----------------------------------------------------------------------------
(* MentionFormat<T> and its Display impls *)

NoWrapper == [kind |-> "none", id |-> 0]
NoText == <<>>

\* pub struct MentionFormat<T>(T): the type parameter and the field .0
MentionFormat(kind, id) == [kind |-> kind, id |-> id]

Digits == <<"0", "1", "2", "3", "4", "5", "6", "7", "8", "9">>

\* DisplayId emitting the digits least significant first
RECURSIVE DisplayId_reversed(_)
DisplayId_reversed(n) ==
    IF n < 10 THEN <<Digits[n + 1]>>
    ELSE <<Digits[(n % 10) + 1]>> \o DisplayId_reversed(n \div 10)

\* "{}" of an identifier: the decimal text of its u64
RECURSIVE DisplayId(_)
DisplayId(n) ==
    IF n < 10 THEN <<Digits[n + 1]>>
    ELSE DisplayId(n \div 10) \o <<Digits[(n % 10) + 1]>>

\* fmtEmojiId with the animated-emoji template
fmtEmojiId_animated(w) ==
    <<"<", "a", ":", "e", "m", "o", "j", "i", ":">> \o DisplayId(w.id) \o <<">">>

\* fmtRoleId with the "&" left out
fmtRoleId_noAmp(w) == <<"<", "@">> \o DisplayId(w.id) \o <<">">>

\* fmtUserId with the nickname template
fmtUserId_nick(w) == <<"<", "@", "!">> \o DisplayId(w.id) \o <<">">>

\* fmtUserId with the role template
fmtUserId_amp(w) == <<"<", "@", "&">> \o DisplayId(w.id) \o <<">">>

fmtChannelId(w) == <<"<", "#">> \o DisplayId(w.id) \o <<">">>

fmtEmojiId(w) ==
    <<"<", ":", "e", "m", "o", "j", "i", ":">> \o DisplayId(w.id) \o <<">">>

fmtRoleId(w) == <<"<", "@", "&">> \o DisplayId(w.id) \o <<">">>

fmtUserId(w) == <<"<", "@">> \o DisplayId(w.id) \o <<">">>

\* to_string(): the Display impl the wrapper's type parameter selects
to_string(w) ==
    CASE w.kind = "ChannelId" -> fmtChannelId(w)
      [] w.kind = "EmojiId" -> fmtEmojiId(w)
      [] w.kind = "RoleId" -> fmtRoleId(w)
      [] w.kind = "UserId" -> fmtUserId(w)

-----------------------------------------------------------------------------
(* The by-value impls of Mention<T> *)

\* MentionChannel reading another field in the Private arm
MentionChannel_private(s) ==
    [kind |-> "ChannelId",
     id |-> CASE s.variant = "Group" -> s.group.id
              [] s.variant = "Guild" -> s.guild.c.id
              [] s.variant = "Private" -> s.private.last_message_id]

\* MentionGroup reading the owner's identifier
MentionGroup_owner(s) == [kind |-> "ChannelId", id |-> s.owner_id]

\* MentionMember reading the guild's identifier
MentionMember_guild(s) == [kind |-> "UserId", id |-> s.guild_id]

guild_channel_id(channel) ==
    CASE channel.variant = "Category" -> channel.c.id
      [] channel.variant = "Text" -> channel.c.id
      [] channel.variant = "Voice" -> channel.c.id

MentionChannelId(s) == MentionFormat("ChannelId", s)

MentionCategoryChannel(s) == MentionFormat("ChannelId", s.id)

MentionChannel(s) ==
    MentionFormat("ChannelId",
        CASE s.variant = "Group" -> s.group.id
          [] s.variant = "Guild" -> guild_channel_id(s.guild)
          [] s.variant = "Private" -> s.private.id)

MentionCurrentUser(s) == MentionFormat("UserId", s.id)

MentionEmojiId(s) == MentionFormat("EmojiId", s)

MentionEmoji(s) == MentionFormat("EmojiId", s.id)

MentionGroup(s) == MentionFormat("ChannelId", s.id)

MentionGuildChannel(s) == MentionFormat("ChannelId", guild_channel_id(s))

MentionMember(s) == MentionFormat("UserId", s.user.id)

MentionPrivateChannel(s) == MentionFormat("ChannelId", s.id)

MentionRoleId(s) == MentionFormat("RoleId", s)

MentionTextChannel(s) == MentionFormat("ChannelId", s.id)

MentionUserId(s) == MentionFormat("UserId", s)

MentionUser(s) == MentionFormat("UserId", s.id)

MentionVoiceChannel(s) == MentionFormat("ChannelId", s.id)

\* <base as Mention<_>>::mention(&s)
MentionImpl(base, s) ==
    CASE base = "ChannelId" -> MentionChannelId(s)
      [] base = "CategoryChannel" -> MentionCategoryChannel(s)
      [] base = "Channel" -> MentionChannel(s)
      [] base = "CurrentUser" -> MentionCurrentUser(s)
      [] base = "EmojiId" -> MentionEmojiId(s)
      [] base = "Emoji" -> MentionEmoji(s)
      [] base = "Group" -> MentionGroup(s)
      [] base = "GuildChannel" -> MentionGuildChannel(s)
      [] base = "Member" -> MentionMember(s)
      [] base = "PrivateChannel" -> MentionPrivateChannel(s)
      [] base = "RoleId" -> MentionRoleId(s)
      [] base = "TextChannel" -> MentionTextChannel(s)
      [] base = "UserId" -> MentionUserId(s)
      [] base = "User" -> MentionUser(s)
      [] base = "VoiceChannel" -> MentionVoiceChannel(s)

-----------------------------------------------------------------------------
(* The by-reference impls: each calls mention() on its dereferenced self *)

\* a type: a base type under `refs` layers of &
TypeOf(base, refs) == [base |-> base, refs |-> refs]

\* every impl Mention<_> for X: X is a base type or a reference to one
Impls == {TypeOf(b, r) : b \in Bases, r \in {0, 1}}

\* the receiver type of impl i's method: mention takes &self
ReceiverType(i) == TypeOf(i.base, i.refs + 1)

NoImpl == TypeOf("none", 0)

\* Resolve trying the method that takes a reference to the candidate first
RECURSIVE Resolve_autorefFirst(_)
Resolve_autorefFirst(t) ==
    LET byValue == {i \in Impls : ReceiverType(i) = t}
        autoref == {i \in Impls : ReceiverType(i) = TypeOf(t.base, t.refs + 1)}
    IN  IF autoref # {} THEN CHOOSE i \in autoref : TRUE
        ELSE IF byValue # {} THEN CHOOSE i \in byValue : TRUE
        ELSE IF t.refs > 0 THEN Resolve_autorefFirst(TypeOf(t.base, t.refs - 1))
        ELSE NoImpl

\* The impl a method call recv.mention() selects, recv of type t: for t and then
\* each type t dereferences to, first the method whose receiver type is the
\* candidate itself, then the one whose receiver type is a reference to it.
RECURSIVE Resolve(_)
Resolve(t) ==
    LET byValue == {i \in Impls : ReceiverType(i) = t}
        autoref == {i \in Impls : ReceiverType(i) = TypeOf(t.base, t.refs + 1)}
    IN  IF byValue # {} THEN CHOOSE i \in byValue : TRUE
        ELSE IF autoref # {} THEN CHOOSE i \in autoref : TRUE
        ELSE IF t.refs > 0 THEN Resolve(TypeOf(t.base, t.refs - 1))
        ELSE NoImpl

\* the callee of the call in the impl for &base: self is &&base, and the
\* receiver expression, self dereferenced once, is &base
RefCallee(base) == Resolve(TypeOf(base, 1))

-----------------------------------------------------------------------------
(* The state machine: one call of mention(), then to_string() on the result *)

Init ==
    /\ \E b \in Bases, r \in {0, 1} :
        /\ ty = TypeOf(b, r)
        /\ self \in ValuesOf(b)
    /\ pc = "start"
    /\ calls = <<>>
    /\ wrapper = NoWrapper
    /\ out = NoText
    /\ prev = NoText
    /\ renders = 0

\* an impl for a base type returns the wrapper it built
Return(w) ==
    /\ pc = "start"
    /\ calls' = <<ty>>
    /\ wrapper' = w
    /\ pc' = "mentioned"
    /\ UNCHANGED <<self, ty, out, prev, renders>>

\* an impl for a reference calls mention() on its dereferenced self and returns
\* what the callee returns; were the callee this same impl, it would not return
Forward(callee) ==
    /\ pc = "start"
    /\ calls' = <<ty, callee>>
    /\ IF callee.refs = 0
       THEN /\ wrapper' = MentionImpl(callee.base, self)
            /\ pc' = "mentioned"
       ELSE /\ wrapper' = NoWrapper
            /\ pc' = "recursing"
    /\ UNCHANGED <<self, ty, out, prev, renders>>

\* to_string() on the wrapper (it is Copy: it can be rendered again)
Render(text) ==
    /\ pc \in {"mentioned", "rendered"}
    /\ renders < MaxRenders
    /\ out' = text
    /\ prev' = out
    /\ renders' = renders + 1
    /\ pc' = "rendered"
    /\ UNCHANGED <<self, ty, calls, wrapper>>

ChannelIdMention ==
    ty = TypeOf("ChannelId", 0) /\ Return(MentionChannelId(self))

ChannelIdRefMention ==
    ty = TypeOf("ChannelId", 1) /\ Forward(RefCallee("ChannelId"))

CategoryChannelMention ==
    ty = TypeOf("CategoryChannel", 0) /\ Return(MentionCategoryChannel(self))

CategoryChannelRefMention ==
    ty = TypeOf("CategoryChannel", 1) /\ Forward(RefCallee("CategoryChannel"))

ChannelMention ==
    ty = TypeOf("Channel", 0) /\ Return(MentionChannel(self))

ChannelRefMention ==
    ty = TypeOf("Channel", 1) /\ Forward(RefCallee("Channel"))

CurrentUserMention ==
    ty = TypeOf("CurrentUser", 0) /\ Return(MentionCurrentUser(self))

CurrentUserRefMention ==
    ty = TypeOf("CurrentUser", 1) /\ Forward(RefCallee("CurrentUser"))

EmojiIdMention ==
    ty = TypeOf("EmojiId", 0) /\ Return(MentionEmojiId(self))

EmojiIdRefMention ==
    ty = TypeOf("EmojiId", 1) /\ Forward(RefCallee("EmojiId"))

EmojiMention ==
    ty = TypeOf("Emoji", 0) /\ Return(MentionEmoji(self))

EmojiRefMention ==
    ty = TypeOf("Emoji", 1) /\ Forward(RefCallee("Emoji"))

GroupMention ==
    ty = TypeOf("Group", 0) /\ Return(MentionGroup(self))

GroupRefMention ==
    ty = TypeOf("Group", 1) /\ Forward(RefCallee("Group"))

GuildChannelMention ==
    ty = TypeOf("GuildChannel", 0) /\ Return(MentionGuildChannel(self))

GuildChannelRefMention ==
    ty = TypeOf("GuildChannel", 1) /\ Forward(RefCallee("GuildChannel"))

MemberMention ==
    ty = TypeOf("Member", 0) /\ Return(MentionMember(self))

MemberRefMention ==
    ty = TypeOf("Member", 1) /\ Forward(RefCallee("Member"))

PrivateChannelMention ==
    ty = TypeOf("PrivateChannel", 0) /\ Return(MentionPrivateChannel(self))

PrivateChannelRefMention ==
    ty = TypeOf("PrivateChannel", 1) /\ Forward(RefCallee("PrivateChannel"))

RoleIdMention ==
    ty = TypeOf("RoleId", 0) /\ Return(MentionRoleId(self))

RoleIdRefMention ==
    ty = TypeOf("RoleId", 1) /\ Forward(RefCallee("RoleId"))

TextChannelMention ==
    ty = TypeOf("TextChannel", 0) /\ Return(MentionTextChannel(self))

TextChannelRefMention ==
    ty = TypeOf("TextChannel", 1) /\ Forward(RefCallee("TextChannel"))

UserIdMention ==
    ty = TypeOf("UserId", 0) /\ Return(MentionUserId(self))

UserIdRefMention ==
    ty = TypeOf("UserId", 1) /\ Forward(RefCallee("UserId"))

UserMention ==
    ty = TypeOf("User", 0) /\ Return(MentionUser(self))

UserRefMention ==
    ty = TypeOf("User", 1) /\ Forward(RefCallee("User"))

VoiceChannelMention ==
    ty = TypeOf("VoiceChannel", 0) /\ Return(MentionVoiceChannel(self))

VoiceChannelRefMention ==
    ty = TypeOf("VoiceChannel", 1) /\ Forward(RefCallee("VoiceChannel"))

DisplayChannelId ==
    wrapper.kind = "ChannelId" /\ Render(fmtChannelId(wrapper))

DisplayEmojiId ==
    wrapper.kind = "EmojiId" /\ Render(fmtEmojiId(wrapper))

DisplayRoleId ==
    wrapper.kind = "RoleId" /\ Render(fmtRoleId(wrapper))

DisplayUserId ==
    wrapper.kind = "UserId" /\ Render(fmtUserId(wrapper))

Next ==
    \/ ChannelIdMention
    \/ ChannelIdRefMention
    \/ CategoryChannelMention
    \/ CategoryChannelRefMention
    \/ ChannelMention
    \/ ChannelRefMention
    \/ CurrentUserMention
    \/ CurrentUserRefMention
    \/ EmojiIdMention
    \/ EmojiIdRefMention
    \/ EmojiMention
    \/ EmojiRefMention
    \/ GroupMention
    \/ GroupRefMention
    \/ GuildChannelMention
    \/ GuildChannelRefMention
    \/ MemberMention
    \/ MemberRefMention
    \/ PrivateChannelMention
    \/ PrivateChannelRefMention
    \/ RoleIdMention
    \/ RoleIdRefMention
    \/ TextChannelMention
    \/ TextChannelRefMention
    \/ UserIdMention
    \/ UserIdRefMention
    \/ UserMention
    \/ UserRefMention
    \/ VoiceChannelMention
    \/ VoiceChannelRefMention
    \/ DisplayChannelId
    \/ DisplayEmojiId
    \/ DisplayRoleId
    \/ DisplayUserId

Spec == Init /\ [][Next]_vars

-----------------------------------------------------------------------------
(* What the properties are stated with: text taken apart, not built *)

Kinds == {"ChannelId", "EmojiId", "RoleId", "UserId"}

Mentioned == pc \in {"mentioned", "rendered"}
Rendered == pc = "rendered"

IsDigit(c) == \E d \in 0 .. 9 : Digits[d + 1] = c

DigitValue(c) == CHOOSE d \in 0 .. 9 : Digits[d + 1] = c

\* the number a digit sequence denotes, most significant digit first
RECURSIVE DecimalValue(_)
DecimalValue(s) ==
    IF s = <<>> THEN 0
    ELSE 10 * DecimalValue(SubSeq(s, 1, Len(s) - 1)) + DigitValue(s[Len(s)])

\* s is the decimal text of n: digits only, no leading zero, no sign, no separator
IsDecimalOf(s, n) ==
    /\ Len(s) >= 1
    /\ \A i \in 1 .. Len(s) : IsDigit(s[i])
    /\ Len(s) > 1 => s[1] # "0"
    /\ DecimalValue(s) = n

\* text is exactly prefix, then the decimal text of n, then ">"
HasForm(text, prefix, n) ==
    /\ Len(text) >= Len(prefix) + 2
    /\ SubSeq(text, 1, Len(prefix)) = prefix
    /\ text[Len(text)] = ">"
    /\ IsDecimalOf(SubSeq(text, Len(prefix) + 1, Len(text) - 1), n)

\* the entity kind of an input type, and the identifier a value of it embeds,
\* as section 4.2 of the specification lists them
KindOf(base) ==
    CASE base \in {"ChannelId", "CategoryChannel", "Channel", "Group", "GuildChannel",
                   "PrivateChannel", "TextChannel", "VoiceChannel"} -> "ChannelId"
      [] base \in {"EmojiId", "Emoji"} -> "EmojiId"
      [] base = "RoleId" -> "RoleId"
      [] base \in {"UserId", "CurrentUser", "User", "Member"} -> "UserId"

EmbeddedId(base, v) ==
    CASE base \in Kinds -> v
      [] base = "Member" -> v.user.id
      [] base = "GuildChannel" -> v.c.id
      [] base = "Channel" /\ v.variant = "Group" -> v.group.id
      [] base = "Channel" /\ v.variant = "Guild" -> v.guild.c.id
      [] base = "Channel" /\ v.variant = "Private" -> v.private.id
      [] OTHER -> v.id

\* the domain objects of the delegation property (the unions are apart)
Objects ==
    {"CategoryChannel", "TextChannel", "VoiceChannel", "Group", "PrivateChannel",
     "CurrentUser", "User", "Emoji", "Member"}

\* what the program renders for a receiver of type TypeOf(base, refs) and value v
Rendering(base, refs, v) ==
    IF refs = 0 THEN to_string(MentionImpl(base, v))
    ELSE LET callee == RefCallee(base)
         IN  IF callee.refs = 0 THEN to_string(MentionImpl(callee.base, v)) ELSE NoText

-----------------------------------------------------------------------------
(* The claims *)

\* C1: mention() on a ChannelId n renders exactly "<#", the decimal digits of n
\* (no leading zero, separator or sign), ">"; 123 gives "<#123>".
C1_ChannelIdText ==
    (Rendered /\ ty = TypeOf("ChannelId", 0)) =>
        /\ HasForm(out, <<"<", "#">>, self)
        /\ self = 123 => out = <<"<", "#", "1", "2", "3", ">">>

C1_Witness ==
    /\ Rendered
    /\ ty = TypeOf("ChannelId", 0)
    /\ self = 123
    /\ out = <<"<", "#", "1", "2", "3", ">">>

\* C2: mention() on a UserId n renders exactly "<@", the decimal digits of n,
\* ">", with nothing between "@" and the digits; 123 gives "<@123>".
C2_UserIdText ==
    (Rendered /\ ty = TypeOf("UserId", 0)) =>
        /\ HasForm(out, <<"<", "@">>, self)
        /\ self = 123 => out = <<"<", "@", "1", "2", "3", ">">>

C2_Witness ==
    /\ Rendered
    /\ ty = TypeOf("UserId", 0)
    /\ self = 123
    /\ out = <<"<", "@", "1", "2", "3", ">">>

\* C3: mention() on a RoleId n renders exactly "<@&", the decimal digits of n,
\* ">"; 123 gives "<@&123>".
C3_RoleIdText ==
    (Rendered /\ ty = TypeOf("RoleId", 0)) =>
        /\ HasForm(out, <<"<", "@", "&">>, self)
        /\ self = 123 => out = <<"<", "@", "&", "1", "2", "3", ">">>

C3_Witness ==
    /\ Rendered
    /\ ty = TypeOf("RoleId", 0)
    /\ self = 123
    /\ out = <<"<", "@", "&", "1", "2", "3", ">">>

\* C4: mention() on an EmojiId n renders exactly "<:emoji:", the decimal digits
\* of n, ">"; the name part is the literal word emoji also for an Emoji object
\* with a name of its own; 123 gives "<:emoji:123>".
C4_EmojiText ==
    (Rendered /\ ty.refs = 0 /\ ty.base \in {"EmojiId", "Emoji"}) =>
        LET n == IF ty.base = "Emoji" THEN self.id ELSE self
        IN  /\ HasForm(out, <<"<", ":", "e", "m", "o", "j", "i", ":">>, n)
            /\ n = 123 =>
                out = <<"<", ":", "e", "m", "o", "j", "i", ":", "1", "2", "3", ">">>

C4_Witness ==
    /\ Rendered
    /\ ty = TypeOf("Emoji", 0)
    /\ self = [id |-> 123, name |-> "smile"]
    /\ out = <<"<", ":", "e", "m", "o", "j", "i", ":", "1", "2", "3", ">">>

\* C5: delegation: mention() on a domain object renders the text mention()
\* renders on the identifier the object embeds, of the same kind; a member
\* embedding user 456 renders "<@456>", a text channel 789 renders "<#789>".
C5_Delegation ==
    (Rendered /\ ty.refs = 0 /\ ty.base \in Objects) =>
        /\ wrapper.kind = KindOf(ty.base)
        /\ out = Rendering(KindOf(ty.base), 0, EmbeddedId(ty.base, self))
        /\ (ty.base = "Member" /\ self.user.id = 456) =>
                out = <<"<", "@", "4", "5", "6", ">">>
        /\ (ty.base = "TextChannel" /\ self.id = 789) =>
                out = <<"<", "#", "7", "8", "9", ">">>

C5_Witness ==
    /\ Rendered
    /\ ty = TypeOf("Member", 0)
    /\ self.user.id = 456
    /\ self.guild_id = 5
    /\ out = <<"<", "@", "4", "5", "6", ">">>

\* C6: mention() on a reference enters the impl for the reference and then, in
\* one step, the by-value impl of the same type, never the reference impl
\* again; it returns the wrapper, and renders the text, of the call by value.
C6_ReferenceForwards ==
    (pc # "start" /\ ty.refs = 1) =>
        /\ pc # "recursing"
        /\ calls = <<ty, TypeOf(ty.base, 0)>>
        /\ wrapper = MentionImpl(ty.base, self)
        /\ Rendered => out = Rendering(ty.base, 0, self)

C6_Witness ==
    /\ Rendered
    /\ ty = TypeOf("Member", 1)
    /\ calls = <<TypeOf("Member", 1), TypeOf("Member", 0)>>
    /\ self.user.id = 456
    /\ out = <<"<", "@", "4", "5", "6", ">">>

\* C7: for the Channel union mention() yields a channel wrapper holding the id
\* of the variant present (Group, Private, or the Category, Text or Voice
\* channel under Guild) and renders "<#id>"; a GuildChannel passed directly
\* renders the text of the same GuildChannel under Channel::Guild.
C7_ChannelUnion ==
    /\ (Mentioned /\ ty.base = "Channel") =>
        LET id == CASE self.variant = "Group" -> self.group.id
                    [] self.variant = "Guild" -> self.guild.c.id
                    [] self.variant = "Private" -> self.private.id
        IN  /\ wrapper = [kind |-> "ChannelId", id |-> id]
            /\ Rendered => HasForm(out, <<"<", "#">>, id)
    /\ (Mentioned /\ ty.base = "GuildChannel") =>
        /\ wrapper = [kind |-> "ChannelId", id |-> self.c.id]
        /\ Rendered =>
            /\ HasForm(out, <<"<", "#">>, self.c.id)
            /\ out = Rendering("Channel", ty.refs,
                               [variant |-> "Guild", guild |-> self])

C7_Witness ==
    /\ Rendered
    /\ ty = TypeOf("Channel", 0)
    /\ self.variant = "Guild"
    /\ self.guild.variant = "Voice"
    /\ self.guild.c.id = 789
    /\ out = <<"<", "#", "7", "8", "9", ">">>

\* C8: the rendered text is a total function of (kind, identifier value) only:
\* every input of the same kind and value, of whatever type, with whatever
\* other fields, by value or by reference, renders the same text; rendering
\* again gives the same text; every input renders to a mention string.
C8_FunctionOfKindAndId ==
    /\ pc # "recursing"
    /\ Mentioned => wrapper.kind \in Kinds
    /\ Rendered =>
        /\ Len(out) >= 4 /\ out[1] = "<" /\ out[Len(out)] = ">"
        /\ prev # NoText => prev = out
        /\ \A b \in Bases :
            KindOf(b) = KindOf(ty.base) =>
                \A v \in ValuesOf(b) :
                    EmbeddedId(b, v) = EmbeddedId(ty.base, self) =>
                        \A r \in {0, 1} : Rendering(b, r, v) = out

C8_Witness ==
    /\ Rendered
    /\ renders = 2
    /\ prev = out
    /\ ty = TypeOf("Group", 1)
    /\ self = [id |-> 10, owner_id |-> 456]
    /\ out = Rendering("ChannelId", 0, 10)
    /\ out = Rendering("Group", 0, [id |-> 10, owner_id |-> 5])

\* C9: as the doc comments of the four user impls state, mention() on a UserId,
\* a &UserId, a User or a &User renders "<&", the decimal identifier, ">".
\* The code renders "<@", the decimal identifier, ">" instead.
C9_DocCommentText ==
    (Rendered /\ ty.base \in {"UserId", "User"}) =>
        HasForm(out, <<"<", "&">>, EmbeddedId(ty.base, self))

\* C10: rendering is injective over (kind, value): a wrapper of another kind or
\* of another value renders another text; a role mention never equals a user
\* mention.
C10_Injective ==
    Rendered =>
        /\ \A k \in Kinds, v \in Ids :
            <<k, v>> # <<wrapper.kind, wrapper.id>> =>
                to_string(MentionFormat(k, v)) # out
        /\ wrapper.kind = "RoleId" =>
            \A m \in Ids : to_string(MentionFormat("UserId", m)) # out

C10_Witness ==
    /\ Rendered
    /\ wrapper = [kind |-> "RoleId", id |-> 1]
    /\ out = <<"<", "@", "&", "1", ">">>
    /\ to_string(MentionFormat("UserId", 1)) = <<"<", "@", "1", ">">>

====
